---------------------------- MODULE Spec2Model ----------------------------
(***************************************************************************)
(* CalibHitBuilder (proto_nd_flow/reco/charge/calib_prompt_hits.py).       *)
(*                                                                         *)
(* The stage is modelled as a state machine: the constructor leaves the    *)
(* parameters, init loads the two calibration mappings, and every run      *)
(* processes one chunk of the cache (packets, raw hits, t0) against the    *)
(* data manager (reserve_data, write_data, write_ref).                     *)
(*                                                                         *)
(* Conventions:                                                            *)
(*  - a masked 2-d array is a sequence of rows (one row per source event); *)
(*    numpy's row-major boolean selection is Select2D;                     *)
(*  - strings that are computed (the channel unique id, the keys of the    *)
(*    json files) are sequences of decimal digits, so that astype(str)     *)
(*    is a conversion and not the identity;                                *)
(*  - Q is kept exactly as the integer Q*1024 (Q1024), E as Q*1024*236     *)
(*    (E = Q * 23.6e-6);                                                   *)
(*  - ids are u4; within the bounds no id comes near 2^32, so the wrap   *)
(*    is not modelled;                                                    *)
(*  - the geometry resource is not part of this file: only the fact that   *)
(*    its call and the later field assignments raise on arrays of          *)
(*    different lengths is modelled; x, y, z are not.                      *)
(***************************************************************************)
EXTENDS Integers, Sequences, FiniteSets, TLC

VARIABLES
    pc,                 \* "constructed", "ready" (init done), "raised" (run raised)
    is_mc,              \* resources['RunData'].is_mc
    pedestal_file,      \* self.pedestal_file
    configuration_file, \* self.configuration_file
    configuration,      \* the class attribute configuration: the keys the dict holds
    pedestal,           \* the class attribute pedestal: the keys the dict holds
    loaded_configuration, \* configuration as it was at the end of init
    loaded_pedestal,    \* pedestal as it was at the end of init
    opened,             \* the files open() was called on
    runs,               \* number of run invocations so far
    src_next,           \* first source index of the next source_slice
    hits_dset,          \* the calib hits dataset of the data manager
    cache,              \* the chunk the last run was given
    source_slice,       \* the source_slice the last run was given
    calls,              \* the data manager calls of the last run, in order
    calib_hits_slice,   \* the slice reserve_data returned to the last run
    written,            \* the records the last run gave to write_data
    ref_raw,            \* rows the last run wrote to source -> hits
    ref_ev,             \* rows the last run wrote to events -> hits
    t0_local,           \* hit_t0 as the last run built it
    printed             \* the last run printed the "inconsistent" message

vars == <<pc, is_mc, pedestal_file, configuration_file, configuration, pedestal,
          loaded_configuration, loaded_pedestal, opened, runs, src_next,
          hits_dset, cache, source_slice, calls, calib_hits_slice, written,
          ref_raw, ref_ev, t0_local, printed>>

----------------------------------------------------------------------------
(* Bounds *)

\* run invocations in the specifications that process several chunks
MaxRuns == 2

----------------------------------------------------------------------------
(* Program constants *)

DefaultVref == 1300
DefaultVcm == 288
DefaultPedestal == 580

default_configuration == [vref_mv |-> DefaultVref, vcm_mv |-> DefaultVcm]
default_pedestal == [pedestal_mv |-> DefaultPedestal]

----------------------------------------------------------------------------
(* Sequence helpers: numpy's flattening and boolean selection *)

RECURSIVE Flatten(_)
Flatten(rows) == IF rows = <<>> THEN <<>> ELSE Head(rows) \o Flatten(Tail(rows))

\* data[m] for a 2-d array and a 2-d boolean array of the same shape
Select2D(data, m) ==
    LET cells == Flatten([i \in 1..Len(data) |->
                     [j \in 1..Len(data[i]) |-> [keep |-> m[i][j], val |-> data[i][j]]]])
        kept == SelectSeq(cells, LAMBDA x : x.keep)
    IN  [k \in 1..Len(kept) |-> kept[k].val]

count_nonzero(m) == Len(SelectSeq(Flatten(m), LAMBDA b : b))

\* str(k) for a non-negative integer, as its decimal digits
RECURSIVE ToStr(_)
ToStr(k) == IF k < 10 THEN <<k>> ELSE ToStr(k \div 10) \o <<k % 10>>


----------------------------------------------------------------------------
(* The calibration mappings: defaultdict(lambda: dict(...)) *)

EmptyMap == [k \in {} |-> default_pedestal]

Range(s) == {s[i] : i \in DOMAIN s}

\* d[key] of a defaultdict: the entry, or a fresh default entry
GetItem(d, key, default) == IF key \in DOMAIN d THEN d[key] ELSE default

\* the dict after d[key] was evaluated for every key of keys:
\* defaultdict.__missing__ stores the default entry under a missing key
AfterGetItems(d, keys, default) ==
    [k \in DOMAIN d \cup Range(keys) |-> IF k \in DOMAIN d THEN d[k] ELSE default]

\* the dict after "for key, value in json.load(infile).items(): d[key] = value"
AfterLoad(d, json) ==
    [k \in DOMAIN d \cup DOMAIN json |-> IF k \in DOMAIN json THEN json[k] ELSE d[k]]

----------------------------------------------------------------------------
(* run: the arrays of one chunk c = [packets, raw_hits, t0] *)

\* mask = ~structured_to_unstructured(packets_data.mask).any(axis=-1)
packets_mask(c) ==
    [i \in 1..Len(c.packets) |->
        [j \in 1..Len(c.packets[i]) |-> ~c.packets[i][j].masked]]

\* rh_mask = ~structured_to_unstructured(raw_hits.mask).any(axis=-1)
rh_mask(c) ==
    [i \in 1..Len(c.raw_hits) |->
        [j \in 1..Len(c.raw_hits[i]) |->
            ~(c.raw_hits[i][j].mask.id \/ c.raw_hits[i][j].mask.ts_pps)]]

\* mutant: the packet_type test is left out of the mask
mask_any_type(c) == packets_mask(c)

\* mask after the branch on np.count_nonzero(mask)
mask(c) ==
    LET valid == packets_mask(c)
    IN  IF count_nonzero(valid) > 0
        THEN [i \in 1..Len(c.packets) |->
                [j \in 1..Len(c.packets[i]) |->
                    (c.packets[i][j].packet_type = 0) /\ valid[i][j]]]
        ELSE valid

n(c) == IF count_nonzero(packets_mask(c)) > 0 THEN count_nonzero(mask(c)) ELSE 0

packets_arr(c) == Select2D(c.packets, mask(c))

raw_hits_arr(c) == Select2D(c.raw_hits, rh_mask(c))

\* mutant: the masked entries of an event are not counted
count_masked_id_none(row) == 0

\* np.ma.count_masked(raw_hits[t0_it]['id'], axis=0)
count_masked_id(row) == Len(SelectSeq(row, LAMBDA h : h.mask.id))

\* the for loop over enumerate(t0_data['ts']); first_index counts from 0
RECURSIVE t0_loop(_, _, _, _)
t0_loop(c, t0_it, first_index, arr) ==
    IF t0_it > Len(c.t0) THEN arr
    ELSE LET n_masked == count_masked_id(c.raw_hits[t0_it])
             n_not_masked == Len(c.raw_hits[t0_it]) - n_masked
             last_index == first_index + n_not_masked
         IN  t0_loop(c, t0_it + 1, first_index + n_not_masked,
                     [j \in 1..Len(arr) |->
                        IF first_index < j /\ j <= last_index
                        THEN c.t0[t0_it] ELSE arr[j]])

\* hit_t0 as it stands when drift_t is computed
hit_t0(c) ==
    LET zeros == [j \in 1..Len(raw_hits_arr(c)) |-> 0]
    IN  IF Len(c.raw_hits) # Len(c.t0) THEN zeros ELSE t0_loop(c, 1, 0, zeros)

\* the "inconsistent" branch is taken
inconsistent(c) == Len(c.raw_hits) # Len(c.t0)

drift_t(c) ==
    LET hits == raw_hits_arr(c)
        t0s == hit_t0(c)
    IN  [j \in 1..Len(hits) |-> hits[j].ts_pps - t0s[j]]

\* mutant: the channel_id term is left out of the unique id
hit_uniqueid_no_channel(p) ==
    ((p.io_group * 100000 + p.io_channel) * 1000 + p.chip_id) * 64

hit_uniqueid(p) ==
    ((p.io_group * 100000 + p.io_channel) * 1000 + p.chip_id) * 64 + p.channel_id

hit_uniqueid_str(c) ==
    LET pkts == packets_arr(c)
    IN  [k \in 1..Len(pkts) |-> ToStr(hit_uniqueid(pkts[k]))]

\* (dw / 256. * (vref - vcm) + vcm - ped) / 4., times 1024
charge_from_dataword(dw, vref, vcm, ped) == dw * (vref - vcm) + 256 * (vcm - ped)

\* an array of length m assigned to a field of n rows: numpy broadcasts length 1
Broadcast(arr, k) == IF Len(arr) = 1 THEN arr[1] ELSE arr[k]

\* mutant: the ids are np.arange(n), without the start of the slice
calib_hits_arr_ids_from_zero(c, start, cfg, pdl) ==
    LET pkts == packets_arr(c)
        keys == hit_uniqueid_str(c)
        hits == raw_hits_arr(c)
        dt == drift_t(c)
    IN  [k \in 1..Len(pkts) |->
            LET vref == GetItem(cfg, keys[k], default_configuration).vref_mv
                vcm == GetItem(cfg, keys[k], default_configuration).vcm_mv
                ped == GetItem(pdl, keys[k], default_pedestal).pedestal_mv
                q == charge_from_dataword(pkts[k].dataword, vref, vcm, ped)
            IN  [id |-> k - 1,
                 ts_pps |-> Broadcast(hits, k).ts_pps,
                 t_drift |-> Broadcast(dt, k),
                 Q1024 |-> q,
                 E |-> q * 236]]

\* calib_hits_arr as given to write_data, with the mappings cfg and pdl
calib_hits_arr(c, start, cfg, pdl) ==
    LET pkts == packets_arr(c)
        keys == hit_uniqueid_str(c)
        hits == raw_hits_arr(c)
        dt == drift_t(c)
    IN  [k \in 1..Len(pkts) |->
            LET vref == GetItem(cfg, keys[k], default_configuration).vref_mv
                vcm == GetItem(cfg, keys[k], default_configuration).vcm_mv
                ped == GetItem(pdl, keys[k], default_pedestal).pedestal_mv
                q == charge_from_dataword(pkts[k].dataword, vref, vcm, ped)
            IN  [id |-> start + (k - 1),
                 ts_pps |-> Broadcast(hits, k).ts_pps,
                 t_drift |-> Broadcast(dt, k),
                 Q1024 |-> q,
                 E |-> q * 236]]

\* mutant: the event's position in the chunk instead of its source index
raw_ev_id_in_chunk(c, sl) ==
    Select2D([i \in 1..Len(c.packets) |->
                 [j \in 1..Len(c.packets[i]) |-> i - 1]], mask(c))

\* raw_ev_id[mask]: the source index of every selected packet, row-major
raw_ev_id(c, sl) ==
    Select2D([i \in 1..Len(c.packets) |->
                 [j \in 1..Len(c.packets[i]) |-> sl.start + (i - 1)]], mask(c))

\* ref = np.c_[raw_ev_id[mask], calib_hits_arr['id']]
ref(c, sl, arr) ==
    LET src == raw_ev_id(c, sl)
    IN  [k \in 1..Len(arr) |-> <<src[k], arr[k].id>>]

\* How the body between reserve_data and write_data ends.  With as many valid
\* raw hits as selected packets it returns.  Otherwise the arrays differ in
\* length: the geometry call (not in this file) may raise; if it does not,
\* the assignment of raw_hits_arr['ts_pps'] to the n rows raises unless the
\* single raw hit is broadcast.
Outcomes(c) ==
    IF n(c) = 0 \/ Len(raw_hits_arr(c)) = n(c) THEN {"returns"}
    ELSE IF Len(raw_hits_arr(c)) = 1 THEN {"returns", "raises_geometry"}
    ELSE {"raises_geometry", "raises_assign"}


----------------------------------------------------------------------------
(* The environment: the json files and the chunks of the cache *)

\* pedestal_file: channel "1" is overridden; "02" is a key no unique id prints as
PedestalJson ==
    [k \in {<<1>>, <<0, 2>>} |->
        IF k = <<1>> THEN [pedestal_mv |-> 600] ELSE [pedestal_mv |-> 700]]

\* configuration_file: channel "64131" is overridden
ConfigurationJson ==
    [k \in {<<6, 4, 1, 3, 1>>} |-> [vref_mv |-> 1200, vcm_mv |-> 300]]

Packet(masked, type, g, ch, chip, chan, dw) ==
    [masked |-> masked, packet_type |-> type, io_group |-> g, io_channel |-> ch,
     chip_id |-> chip, channel_id |-> chan, dataword |-> dw]

PM == Packet(TRUE, 0, 0, 0, 0, 0, 0)       \* a masked slot (padding)
PA == Packet(FALSE, 0, 0, 0, 0, 1, 128)    \* data packet, unique id 1
PB == Packet(FALSE, 0, 0, 0, 0, 2, 128)    \* data packet, unique id 2
PC == Packet(FALSE, 0, 0, 1, 2, 3, 200)    \* data packet, unique id 64131
PT == Packet(FALSE, 4, 0, 0, 0, 1, 128)    \* a valid packet of another type

\* a raw hit; the cache masks a whole row or none of it
RawHit(masked, id, ts) ==
    [mask |-> [id |-> masked, ts_pps |-> masked], id |-> id, ts_pps |-> ts]

\* raw hits of event i, slot j: valid (with a timestamp of its own) or masked
RawSlot(valid, i, j) ==
    IF valid THEN RawHit(FALSE, 10 * i + j, 100 * i + 10 * j) ELSE RawHit(TRUE, 0, 0)

RawArray(valid) ==
    [i \in 1..Len(valid) |-> [j \in 1..Len(valid[i]) |-> RawSlot(valid[i][j], i, j)]]

\* one or two events
OneOrTwo(Rows) == {<<r>> : r \in Rows} \cup (Rows \X Rows)

T0Vals == {10, 25}

\* t0 arrays: every array of the length of the chunk, one shorter, one longer
T0Arrays(nev) ==
    [1..nev -> T0Vals] \cup {[i \in 1..(nev - 1) |-> 10], [i \in 1..(nev + 1) |-> 10 * i]}

\* the raw hits an upstream stage builds: one per valid data packet
AlignedValid(pk) ==
    [i \in 1..Len(pk) |->
        [j \in 1..Len(pk[i]) |-> ~pk[i][j].masked /\ pk[i][j].packet_type = 0]]

Chunk(pk, valid, t0) == [packets |-> pk, raw_hits |-> RawArray(valid), t0 |-> t0]

\* Chunks of Spec: two slots per event, packets and raw hits independent
WidePackets == OneOrTwo({PM, PA, PT} \X {PM, PA, PT})
WideValid == OneOrTwo(BOOLEAN \X BOOLEAN)
Chunks ==
    UNION {UNION {{Chunk(pk, valid, t0) : t0 \in T0Arrays(Len(pk))} :
                    valid \in {v \in WideValid : Len(v) = Len(pk)}} :
           pk \in WidePackets}

\* Chunks of SpecNoRaw: the packets of Spec, every raw hit masked, t0 aligned
NoRawChunks ==
    {Chunk(pk, [i \in 1..Len(pk) |-> <<FALSE, FALSE>>], [i \in 1..Len(pk) |-> 10 * i]) :
        pk \in WidePackets}

\* Chunks of SpecCal: one event on the three channels, raw hits and t0 aligned
CalPackets == {<<r>> : r \in {PM, PA, PB, PC} \X {PM, PA, PB, PC}}
CalChunks ==
    {Chunk(pk, AlignedValid(pk), [i \in 1..Len(pk) |-> 10 * i]) : pk \in CalPackets}

\* Chunks of SpecSeq: one or two events of three slots, raw hits and t0 aligned
SeqRows ==
    {<<PA, PA, PA>>, <<PA, PA, PM>>, <<PA, PM, PA>>, <<PT, PA, PM>>, <<PM, PM, PM>>}
SeqPackets == OneOrTwo(SeqRows)
SeqChunks ==
    {Chunk(pk, AlignedValid(pk), [i \in 1..Len(pk) |-> 10 * i]) : pk \in SeqPackets}

----------------------------------------------------------------------------
(* The data manager *)

Unwritten == [id |-> -1]

\* reserve_data(name, k): the dataset grows by k rows, whose slice is returned
reserve_data(dset, k) == [start |-> Len(dset), stop |-> Len(dset) + k]

AfterReserve(dset, k) == dset \o [j \in 1..k |-> Unwritten]

\* write_data(name, sl, arr): the rows of the slice are set
AfterWrite(dset, sl, arr) ==
    [j \in 1..Len(dset) |->
        IF sl.start < j /\ j <= sl.stop THEN arr[j - sl.start] ELSE dset[j]]

----------------------------------------------------------------------------
(* Actions *)

Init ==
    /\ pc = "constructed"
    /\ is_mc \in BOOLEAN
    /\ pedestal_file \in {"", "ped.json"}
    /\ configuration_file \in {"", "config.json"}
    /\ configuration = EmptyMap
    /\ pedestal = EmptyMap
    /\ loaded_configuration = EmptyMap
    /\ loaded_pedestal = EmptyMap
    /\ opened = {}
    /\ runs = 0
    /\ src_next = 0
    /\ hits_dset = <<>>
    /\ cache = Chunk(<<>>, <<>>, <<>>)
    /\ source_slice = [start |-> 0, stop |-> 0]
    /\ calls = <<>>
    /\ calib_hits_slice = [start |-> 0, stop |-> 0]
    /\ written = <<>>
    /\ ref_raw = <<>>
    /\ ref_ev = <<>>
    /\ t0_local = <<>>
    /\ printed = FALSE

\* a run on real data with both files configured
InitData == Init /\ ~is_mc /\ pedestal_file # "" /\ configuration_file # ""

\* mutant: is_mc is not consulted
load_pedestals_opens_ignoring_mc == pedestal_file # ""

\* load_pedestals: whether the file is opened, and the mapping afterwards
load_pedestals_opens == pedestal_file # "" /\ ~is_mc

load_pedestals(d) == IF load_pedestals_opens THEN AfterLoad(d, PedestalJson) ELSE d

load_configurations_opens == configuration_file # "" /\ ~is_mc

load_configurations(d) ==
    IF load_configurations_opens THEN AfterLoad(d, ConfigurationJson) ELSE d

init ==
    /\ pc = "constructed"
    /\ pedestal' = load_pedestals(pedestal)
    /\ configuration' = load_configurations(configuration)
    /\ loaded_pedestal' = pedestal'
    /\ loaded_configuration' = configuration'
    /\ opened' = opened
                 \cup (IF load_pedestals_opens THEN {pedestal_file} ELSE {})
                 \cup (IF load_configurations_opens THEN {configuration_file} ELSE {})
    /\ pc' = "ready"
    /\ UNCHANGED <<is_mc, pedestal_file, configuration_file, runs, src_next,
                   hits_dset, cache, source_slice, calls, calib_hits_slice,
                   written, ref_raw, ref_ev, t0_local, printed>>

\* the lookups of lines 183-188 are reached: n > 0 and the geometry call returned
lookups_reached(c, outcome) == n(c) > 0 /\ outcome # "raises_geometry"

run(c) ==
    /\ pc = "ready"
    /\ \E outcome \in Outcomes(c) :
        LET sl == reserve_data(hits_dset, n(c))
            src == [start |-> src_next, stop |-> src_next + Len(c.packets)]
            arr == calib_hits_arr(c, sl.start, configuration, pedestal)
            rows == ref(c, src, arr)
            ok == outcome = "returns"
        IN  /\ cache' = c
            /\ source_slice' = src
            /\ src_next' = src.stop
            /\ runs' = runs + 1
            /\ calib_hits_slice' = sl
            /\ t0_local' = IF n(c) > 0 THEN hit_t0(c) ELSE <<>>
            /\ printed' = (n(c) > 0 /\ inconsistent(c))
            /\ configuration' =
                 IF lookups_reached(c, outcome)
                 THEN AfterGetItems(configuration, hit_uniqueid_str(c), default_configuration)
                 ELSE configuration
            /\ pedestal' =
                 IF lookups_reached(c, outcome)
                 THEN AfterGetItems(pedestal, hit_uniqueid_str(c), default_pedestal)
                 ELSE pedestal
            /\ hits_dset' =
                 IF ok THEN AfterWrite(AfterReserve(hits_dset, n(c)), sl, arr)
                 ELSE AfterReserve(hits_dset, n(c))
            /\ written' = IF ok THEN arr ELSE <<>>
            /\ ref_raw' = IF ok THEN rows ELSE <<>>
            /\ ref_ev' = IF ok THEN rows ELSE <<>>
            /\ calls' =
                 IF ok THEN <<"reserve_data", "write_data", "write_ref_raw", "write_ref_ev">>
                 ELSE <<"reserve_data">>
            /\ pc' = IF ok THEN "ready" ELSE "raised"
    /\ UNCHANGED <<is_mc, pedestal_file, configuration_file, loaded_configuration,
                   loaded_pedestal, opened>>

----------------------------------------------------------------------------
(* Specifications *)

\* one chunk of the wide domain
RunWide == runs = 0 /\ \E c \in Chunks : run(c)

Next == init \/ RunWide

Spec == Init /\ [][Next]_vars

\* one chunk whose events have no raw hit
RunNoRaw == runs = 0 /\ \E c \in NoRawChunks : run(c)

NextNoRaw == init \/ RunNoRaw

SpecNoRaw == Init /\ [][NextNoRaw]_vars

\* several chunks over the three channels
RunCal == runs < MaxRuns /\ \E c \in CalChunks : run(c)

NextCal == init \/ RunCal

SpecCal == Init /\ [][NextCal]_vars

\* several chunks of up to six packets, on real data
RunSeq == runs < MaxRuns /\ \E c \in SeqChunks : run(c)

NextSeq == init \/ RunSeq

SpecSeq == InitData /\ [][NextSeq]_vars


----------------------------------------------------------------------------
(* What the claims speak of, stated on the chunk itself: the cells of a    *)
(* 2-d array in row-major order, each with the event it belongs to.        *)

Cells(rows) ==
    Flatten([i \in 1..Len(rows) |->
                [j \in 1..Len(rows[i]) |-> [ev |-> i, val |-> rows[i][j]]]])

\* the packets that are valid (no field masked) and of packet_type 0
Surviving(c) ==
    SelectSeq(Cells(c.packets), LAMBDA x : ~x.val.masked /\ x.val.packet_type = 0)

\* the raw hits the compaction mask keeps
ValidRawHits(c) ==
    SelectSeq(Cells(c.raw_hits), LAMBDA x : ~x.val.mask.id /\ ~x.val.mask.ts_pps)

AllCalls == <<"reserve_data", "write_data", "write_ref_raw", "write_ref_ev">>

Reserved == calib_hits_slice.stop - calib_hits_slice.start

\* the calibration values the files and the defaults give a channel key
FileConfiguration(key) ==
    IF configuration_file # "" /\ key \in DOMAIN ConfigurationJson
    THEN ConfigurationJson[key] ELSE [vref_mv |-> 1300, vcm_mv |-> 288]

FilePedestal(key) ==
    IF pedestal_file # "" /\ key \in DOMAIN PedestalJson
    THEN PedestalJson[key] ELSE [pedestal_mv |-> 580]

----------------------------------------------------------------------------
(* Claims *)

\* C1 (as claimed): when a chunk has a valid type-0 packet and the number of
\* raw-hit groups differs from the number of t0 values, run signals an error
\* and writes neither hit records nor edge rows.
C1_MismatchStops ==
    (runs > 0 /\ Len(Surviving(cache)) > 0 /\ Len(cache.raw_hits) # Len(cache.t0))
        => /\ pc = "raised"
           /\ calls = <<"reserve_data">>
           /\ written = <<>> /\ ref_raw = <<>> /\ ref_ev = <<>>

\* C2 (as claimed): for every chunk given to run, the number of slots reserved
\* and the number of hit records written with write_data both equal the number
\* of valid type-0 packets of the chunk.
C2_HitCount ==
    runs > 0
        => /\ Reserved = Len(Surviving(cache))
           /\ "write_data" \in Range(calls)
           /\ Len(written) = Len(Surviving(cache))

\* C3: the ids of a chunk's hits are start, start+1, ..., start+n-1 in row
\* order, start being the start of the reserved slice; over the chunks of a
\* sequence of runs the ids are disjoint and increasing (the dataset holds
\* 0, 1, 2, ... in order); sizes 3 then 5 from an empty dataset give 0..2, 3..7.
C3_DenseIds ==
    /\ \A k \in 1..Len(written) : written[k].id = calib_hits_slice.start + (k - 1)
    /\ Len(written) = Reserved
    /\ \A j \in 1..Len(hits_dset) : hits_dset[j].id = j - 1
    /\ \A i, j \in 1..Len(hits_dset) : i < j => hits_dset[i].id < hits_dset[j].id
    /\ (calib_hits_slice.start = 3 /\ Reserved = 5)
          => /\ [k \in 1..5 |-> written[k].id] = <<3, 4, 5, 6, 7>>
             /\ [j \in 1..3 |-> hits_dset[j].id] = <<0, 1, 2>>

C3_Witness ==
    /\ runs = 2 /\ calib_hits_slice.start = 3 /\ Len(written) = 5
    /\ written[1].id = 3 /\ written[5].id = 7 /\ Len(hits_dset) = 8

C5_Edges ==
    "write_ref_raw" \in Range(calls)
        => /\ calls = AllCalls
           /\ ref_raw = ref_ev
           /\ Len(ref_raw) = Len(written)
           /\ Len(ref_raw) = Len(Surviving(cache))
           /\ \A k \in 1..Len(ref_raw) :
                 ref_raw[k] = <<source_slice.start + Surviving(cache)[k].ev - 1,
                                written[k].id>>

C5_Witness ==
    /\ runs = 2 /\ source_slice.start = 2 /\ calib_hits_slice.start = 2
    /\ cache.packets = <<<<PT, PA, PM>>, <<PA, PM, PA>>>>
    /\ ref_raw = <<<<2, 2>>, <<3, 3>>, <<3, 4>>>>
    /\ ref_ev = ref_raw

\* C6: on real data, the Q of every hit is charge_from_dataword of its
\* packet's dataword and of the values of the packet's own channel: the
\* file's entry when the channel is a key of the loaded file, the defaults
\* 1300, 288, 580 otherwise.  With pedestal 600 for channel "1" only, dataword
\* 128 gives Q = 48.5 on that channel and 53.5 on the channels left at the
\* defaults.
C6_ChargePerChannel ==
    (~is_mc /\ "write_data" \in Range(calls))
        => /\ Len(written) = Len(Surviving(cache))
           /\ \A k \in 1..Len(written) :
                LET p == Surviving(cache)[k].val
                    key == ToStr(((p.io_group * 100000 + p.io_channel) * 1000
                                   + p.chip_id) * 64 + p.channel_id)
                    cfg == FileConfiguration(key)
                    pdl == FilePedestal(key)
                IN  /\ written[k].Q1024 =
                         charge_from_dataword(p.dataword, cfg.vref_mv, cfg.vcm_mv,
                                              pdl.pedestal_mv)
                    /\ (p = PA /\ pedestal_file # "") => written[k].Q1024 = 49664
                    /\ (p = PA /\ pedestal_file = "") => written[k].Q1024 = 54784
                    /\ p = PB => written[k].Q1024 = 54784

C6_Witness ==
    /\ ~is_mc /\ pedestal_file # "" /\ runs = 2
    /\ cache.packets = <<<<PA, PB>>>>
    /\ Len(written) = 2
    /\ written[1].Q1024 = 49664 /\ written[2].Q1024 = 54784

\* C7: on simulated data init opens no file, whatever paths are configured,
\* and in every later run every channel has the defaults 1300, 288, 580.
C7_SimulatedDefaults ==
    is_mc
        => /\ opened = {}
           /\ \A key \in DOMAIN configuration :
                 configuration[key] = [vref_mv |-> 1300, vcm_mv |-> 288]
           /\ \A key \in DOMAIN pedestal : pedestal[key] = [pedestal_mv |-> 580]
           /\ \A k \in 1..Len(written) :
                 written[k].Q1024 =
                    Surviving(cache)[k].val.dataword * (1300 - 288) + 256 * (288 - 580)

C7_Witness ==
    /\ is_mc /\ pedestal_file # "" /\ configuration_file # "" /\ runs = 2
    /\ opened = {}
    /\ cache.packets = <<<<PA, PC>>>>
    /\ Len(written) = 2 /\ written[1].Q1024 = 54784

\* C8 (as claimed): after init, run never changes the two mappings: each
\* holds exactly the keys and values it held at the end of init.
C8_MappingsFrozen ==
    pc # "constructed"
        => /\ configuration = loaded_configuration
           /\ pedestal = loaded_pedestal

\* C9: for a chunk without any valid type-0 packet, run reserves zero slots,
\* writes an empty hit block and zero rows to both edge tables, and does not
\* raise.
C9_EmptyChunk ==
    (runs > 0 /\ Len(Surviving(cache)) = 0)
        => /\ Reserved = 0
           /\ calls = AllCalls
           /\ written = <<>> /\ ref_raw = <<>> /\ ref_ev = <<>>
           /\ pc = "ready"

C9_Witness ==
    /\ runs > 0 /\ pc = "ready" /\ calls = AllCalls /\ Reserved = 0
    /\ cache.packets = <<<<PT, PM>>, <<PM, PT>>>>
    /\ Len(ValidRawHits(cache)) = 3
    /\ Len(cache.t0) = 3

\* C10 (as claimed): in every run the calls are reserve_data, write_data,
\* write_ref, write_ref in this order, each once, and the reserved slice is
\* written with exactly n records in the same run, so that no reserved row is
\* left unwritten, also when the number of valid raw hits differs from n.
C10_ReservedIsWritten ==
    runs > 0
        => /\ calls = AllCalls
           /\ Len(written) = Reserved
           /\ \A j \in 1..Len(hits_dset) : hits_dset[j] # Unwritten

============================================================================
